---- MODULE Spec2Model ----
(***************************************************************************)
(* A model of doit (src/src/main.rs): the template renderer                *)
(* (render_template), the alias locator (get_section), the step runner     *)
(* (run_cmd, run_builtin), the pipeline executor (run_argv,                *)
(* process_pre_post_cmd, process_cmd, primary) and the exit-code mapping   *)
(* of main.                                                                *)
(*                                                                         *)
(* Strings are sequences of one-character strings, so that the regular     *)
(* expressions of the source are modelled by what they match.              *)
(***************************************************************************)
EXTENDS Integers, Sequences, FiniteSets, TLC

VARIABLES
  mode,         \* which entry point this behaviour exercises
  pc,           \* position of the program
  template,     \* render: the raw string handed to render_template
  pieces,       \* render: the tokens the raw string was written from
  rendered,     \* render: what render_template returned
  doc,          \* the parsed document: ordered entries
  cmd_name,    \* cmd_name: the alias cmd_name given on the command line
  overflowChecks, \* whether the build panics on integer overflow
  located,      \* what get_section returned (or that it panicked)
  table,        \* the alias definition process_cmd runs
  extraArgs,    \* args: the extra command-line arguments
  which,        \* the phase of the step in hand: pre, main or post
  index,        \* the 0-based index of the step in hand within its phase
  argv,         \* the argument vector run_cmd is running
  children,     \* the child processes spawned and not yet waited for
  events,       \* log of what the step runner did, in order
  lastStatus,   \* how the last child waited for ended
  result,       \* what primary returned
  exitCode      \* the exit code of the process (-1: still running)

vars == <<mode, pc, template, pieces, rendered, doc, cmd_name, overflowChecks,
          located, table, extraArgs, which, index, argv, children, events,
          lastStatus, result, exitCode>>

(***************************************************************************)
(* Bounds of the model.                                                    *)
(***************************************************************************)
MaxPieces == 3
MaxPre == 2
MaxPost == 1
MaxDoc == 3
MaxArgv == 3

(***************************************************************************)
(* Strings.                                                                *)
(***************************************************************************)
Lower == {"a", "b", "c", "d", "e", "f", "g", "h", "i", "j", "k", "l", "m",
          "n", "o", "p", "q", "r", "s", "t", "u", "v", "w", "x", "y", "z"}
Digit == {"0", "1", "2", "3", "4", "5", "6", "7", "8", "9"}

\* const ASCII_SUB1: &str = "\x1A\x01"
ASCII_SUB1 == <<"\\x1A", "\\x01">>

S_pct == <<"%">>
S_pctpct == <<"%", "%">>
S_envPrefix == <<"%", "e", "n", "v", ":">>

\* s[from..to] (1-based, inclusive); empty when from > to
Slice(s, from, to) == IF from > to THEN <<>> ELSE SubSeq(s, from, to)

\* does p occur in s at position i
HasPrefixAt(s, p, i) ==
  /\ i >= 1
  /\ i + Len(p) - 1 <= Len(s)
  /\ \A k \in 1..Len(p) : s[i + k - 1] = p[k]

\* the first position >= from where p occurs in s, 0 when there is none
FindFrom(s, p, from) ==
  LET hits == {i \in from..Len(s) : HasPrefixAt(s, p, i)}
  IN IF hits = {} THEN 0 ELSE CHOOSE i \in hits : \A j \in hits : i <= j

\* str::replace: every non-overlapping occurrence of pat, from the left
RECURSIVE ReplaceFrom(_, _, _, _)
ReplaceFrom(s, pat, rep, from) ==
  LET i == FindFrom(s, pat, from)
  IN IF i = 0 THEN Slice(s, from, Len(s))
     ELSE Slice(s, from, i - 1) \o rep \o ReplaceFrom(s, pat, rep, i + Len(pat))

StrReplace(s, pat, rep) == ReplaceFrom(s, pat, rep, 1)

(***************************************************************************)
(* The ambient capabilities of the renderer: the process environment, the  *)
(* alias table as scope, the user database.                                *)
(***************************************************************************)
\* markers that are no string of the program (a string is a sequence of
\* one-character strings)
Unset == <<"<unset>">>
NotAString == <<"<not-a-string>">>

\* env::var: the variable a is set, every other name is unset
EnvVar(name) == IF name = <<"a">> THEN <<"1">> ELSE Unset

\* table.get(key) followed by value.as_str(): k and j hold strings, n holds a
\* value that is not a string (as command, pre and post do), others are absent
ScopeGet(key) ==
  CASE key = <<"k">> -> <<"X">>
    [] key = <<"j">> -> <<"Y">>
    [] key = <<"n">> -> NotAString
    [] OTHER -> Unset

\* static HOME: the home directory of the current user, with a trailing slash
HOME == <<"/", "h", "/">>

\* get_user_by_name(..).home_dir(): only the user u exists
UserHome(name) == IF name = <<"u">> THEN <<"/", "h", "u">> ELSE Unset

(***************************************************************************)
(* render_template.                                                        *)
(***************************************************************************)
ErrEnv(name) == [kind |-> "UnknownEnvVar", name |-> name]
ErrKey(name) == [kind |-> "UnknownKey", name |-> name]
ErrStr(name) == [kind |-> "NotAString", name |-> name]
ErrUser(name) == [kind |-> "UnknownUser", name |-> name]

push_error_keep_first(errs, e) == IF errs = <<>> THEN <<e>> ELSE errs

\* push_error: records the error; the placeholder is replaced by ""
push_error(errs, e) == Append(errs, e)

\* ENV0_RE = %env:(.*?):(.*?)% : the leftmost match at or after from, as
\* [at, name, dflt, end], or at = 0. The lazy groups stop at the first ":"
\* after the prefix and at the first "%" after that ":".
ENV0_RE(s, from) ==
  LET i == FindFrom(s, S_envPrefix, from)
      j == IF i = 0 THEN 0 ELSE FindFrom(s, <<":">>, i + 5)
      k == IF j = 0 THEN 0 ELSE FindFrom(s, S_pct, j + 1)
  IN IF k = 0 THEN [at |-> 0]
     ELSE [at |-> i, name |-> Slice(s, i + 5, j - 1),
           dflt |-> Slice(s, j + 1, k - 1), end |-> k]

\* the closure of ENV0_RE.replace_all: the value of the variable, else the default
Env0Value(name, dflt) == IF EnvVar(name) # Unset THEN EnvVar(name) ELSE dflt

RECURSIVE Env0From(_, _)
Env0Step(s, from, m) ==
  IF m.at = 0 THEN Slice(s, from, Len(s))
  ELSE Slice(s, from, m.at - 1) \o Env0Value(m.name, m.dflt) \o Env0From(s, m.end + 1)

Env0From(s, from) == Env0Step(s, from, ENV0_RE(s, from))

\* let x2 = ENV0_RE.replace_all(&x1, ...)
Env0Replace(s) == Env0From(s, 1)

\* ENV1_RE = %env:(.*?)% : the name runs to the first "%" after the prefix
ENV1_RE(s, from) ==
  LET i == FindFrom(s, S_envPrefix, from)
      k == IF i = 0 THEN 0 ELSE FindFrom(s, S_pct, i + 5)
  IN IF k = 0 THEN [at |-> 0]
     ELSE [at |-> i, name |-> Slice(s, i + 5, k - 1), end |-> k]

\* a replacement and the rest of the scan put together
Glue(before, rep, rest) == [out |-> before \o rep \o rest.out, errs |-> rest.errs]

\* the closure of ENV1_RE.replace_all
Env1Value(name) == IF EnvVar(name) # Unset THEN EnvVar(name) ELSE <<>>
Env1Errs(name, errs) == IF EnvVar(name) # Unset THEN errs ELSE push_error(errs, ErrEnv(name))

RECURSIVE Env1From(_, _, _)
Env1Step(s, from, errs, m) ==
  IF m.at = 0 THEN [out |-> Slice(s, from, Len(s)), errs |-> errs]
  ELSE Glue(Slice(s, from, m.at - 1), Env1Value(m.name),
            Env1From(s, m.end + 1, Env1Errs(m.name, errs)))

Env1From(s, from, errs) == Env1Step(s, from, errs, ENV1_RE(s, from))

\* let x3 = ENV1_RE.replace_all(&x2, ...)
Env1Replace(s, errs) == Env1From(s, 1, errs)

\* VAR_RE = %(.*?)% : from the first "%" to the next one
VAR_RE(s, from) ==
  LET i == FindFrom(s, S_pct, from)
      k == IF i = 0 THEN 0 ELSE FindFrom(s, S_pct, i + 1)
  IN IF k = 0 THEN [at |-> 0]
     ELSE [at |-> i, name |-> Slice(s, i + 1, k - 1), end |-> k]

\* the closure of VAR_RE.replace_all
VarGood(key) == ScopeGet(key) # Unset /\ ScopeGet(key) # NotAString
VarError(key) == IF ScopeGet(key) = Unset THEN ErrKey(key) ELSE ErrStr(key)
VarValue(key) == IF VarGood(key) THEN ScopeGet(key) ELSE <<>>
VarErrs(key, errs) == IF VarGood(key) THEN errs ELSE push_error(errs, VarError(key))

RECURSIVE VarFrom(_, _, _)
VarStep(s, from, errs, m) ==
  IF m.at = 0 THEN [out |-> Slice(s, from, Len(s)), errs |-> errs]
  ELSE Glue(Slice(s, from, m.at - 1), VarValue(m.name),
            VarFrom(s, m.end + 1, VarErrs(m.name, errs)))

VarFrom(s, from, errs) == VarStep(s, from, errs, VAR_RE(s, from))

\* let x4 = VAR_RE.replace_all(&x3, ...)
VarReplace(s, errs) == VarFrom(s, 1, errs)

\* the longest run of [a-z0-9_-] starting at position i of s
RECURSIVE NameRun(_, _)
NameRun(s, i) ==
  IF i <= Len(s) /\ s[i] \in Lower \cup Digit \cup {"_", "-"}
  THEN 1 + NameRun(s, i + 1) ELSE 0

\* the user name the optional group ([a-z_][a-z0-9_-]{0,30})? can take at i
UserRun(s, i) == IF i <= Len(s) /\ s[i] \in Lower \cup {"_"} THEN NameRun(s, i) ELSE 0

TildeLen(s, i, n) == IF n <= 31 /\ i + n + 1 <= Len(s) /\ s[i + n + 1] = "/" THEN n ELSE -1

\* TILDE_USER_RE = ~([a-z_][a-z0-9_-]{0,30})?/ tried at position i: the
\* length of the user name matched (0: the group did not take part), or -1
TildeAt(s, i) ==
  IF ~(i <= Len(s) /\ s[i] = "~") THEN -1 ELSE TildeLen(s, i, UserRun(s, i + 1))

TildeFound(s, i, n) == [at |-> i, name |-> Slice(s, i + 1, i + n), end |-> i + n + 1]

TildeFirst(s, hits) ==
  IF hits = {} THEN [at |-> 0]
  ELSE TildeFound(s, CHOOSE x \in hits : \A y \in hits : x <= y,
                  TildeAt(s, CHOOSE x \in hits : \A y \in hits : x <= y))

TILDE_USER_RE(s, from) == TildeFirst(s, {i \in from..Len(s) : TildeAt(s, i) >= 0})

\* the closure of TILDE_USER_RE.replace_all
TildeKnown(name) == name = <<>> \/ UserHome(name) # Unset
TildeValue(name) ==
  IF name = <<>> THEN HOME
  ELSE (IF UserHome(name) # Unset THEN UserHome(name) ELSE <<>>) \o <<"/">>
TildeErrs(name, errs) == IF TildeKnown(name) THEN errs ELSE push_error(errs, ErrUser(name))

RECURSIVE TildeFrom(_, _, _)
TildeStep(s, from, errs, m) ==
  IF m.at = 0 THEN [out |-> Slice(s, from, Len(s)), errs |-> errs]
  ELSE Glue(Slice(s, from, m.at - 1), TildeValue(m.name),
            TildeFrom(s, m.end + 1, TildeErrs(m.name, errs)))

TildeFrom(s, from, errs) == TildeStep(s, from, errs, TILDE_USER_RE(s, from))

\* let x5 = TILDE_USER_RE.replace_all(&x4, ...)
TildeReplace(s, errs) == TildeFrom(s, 1, errs)

RenderOk(s) == [ok |-> TRUE, out |-> s, errs |-> <<>>]
RenderErr(errs) == [ok |-> FALSE, out |-> <<>>, errs |-> errs]

\* the intermediate values of render_template on a template that opted in
\* (x1, x2 are strings; x3, x4, x5 come with the errors pushed so far)
x1(t) == StrReplace(Slice(t, 2, Len(t)), S_pctpct, ASCII_SUB1)
x2(t) == Env0Replace(x1(t))
x3(t) == Env1Replace(x2(t), <<>>)
VarStage(r3) == VarReplace(r3.out, r3.errs)
x4(t) == VarStage(x3(t))
TildeStage(r4) == TildeReplace(r4.out, r4.errs)
x5(t) == TildeStage(x4(t))

\* if !errors.borrow().is_empty() { return Err(..) } Ok(x5.replace(&ASCII_SUB1, "%"))
Finish(r5) ==
  IF r5.errs # <<>> THEN RenderErr(r5.errs)
  ELSE RenderOk(StrReplace(r5.out, ASCII_SUB1, S_pct))

render_template(t) ==
  IF t = <<>> THEN RenderOk(t)
  ELSE IF t[1] # ":" THEN RenderOk(t)
  ELSE IF Len(t) = 1 THEN RenderOk(<<>>)
  ELSE Finish(x5(t))

(***************************************************************************)
(* Rendering on its own: the raw string is written from tokens, with or    *)
(* without the leading sentinel.                                           *)
(***************************************************************************)
PieceSet ==
  { <<"x">>, <<":">>, S_pctpct,
    <<"%", "k", "%">>, <<"%", "j", "%">>, <<"%", "z", "%">>, <<"%", "n", "%">>,
    <<"%", "e", "n", "v", ":", "a", "%">>, <<"%", "e", "n", "v", ":", "b", "%">>,
    <<"%", "e", "n", "v", ":", "a", ":", "d", "%">>,
    <<"%", "e", "n", "v", ":", "b", ":", "d", "%">>,
    <<"~", "/">>, <<"~", "u", "/">>, <<"~", "w", "/">> }

RECURSIVE Flatten(_)
Flatten(ps) == IF ps = <<>> THEN <<>> ELSE Head(ps) \o Flatten(Tail(ps))

\* the sequences of 0..max elements of S
SeqsUpTo(S, max) == {<<>>} \cup UNION {[1..n -> S] : n \in 1..max}

PieceSeqs == SeqsUpTo(PieceSet, MaxPieces)

NoRender == [ok |-> FALSE, out |-> <<>>, errs |-> <<>>]
NoTable == [kind |-> "none"]
NoLocated == [state |-> "none"]
NoResult == [state |-> "none"]
NoStatus == [kind |-> "none", code |-> -1]

InitRender ==
  /\ mode = "render"
  /\ pc = "start"
  /\ pieces \in PieceSeqs
  /\ template \in {Flatten(pieces), <<":">> \o Flatten(pieces)}
  /\ rendered = NoRender
  /\ doc = <<>>
  /\ cmd_name = <<>>
  /\ overflowChecks = FALSE
  /\ located = NoLocated
  /\ table = NoTable
  /\ extraArgs = <<>>
  /\ which = "none"
  /\ index = 0
  /\ argv = <<>>
  /\ children = {}
  /\ events = <<>>
  /\ lastStatus = NoStatus
  /\ result = NoResult
  /\ exitCode = -1

\* one call of render_template
DoRender ==
  /\ mode = "render"
  /\ pc = "start"
  /\ rendered' = render_template(template)
  /\ pc' = "done"
  /\ UNCHANGED <<mode, template, pieces, doc, cmd_name, overflowChecks, located,
                 table, extraArgs, which, index, argv, children, events,
                 lastStatus, result, exitCode>>

NextRender == DoRender

SpecRender == InitRender /\ [][NextRender]_vars

(***************************************************************************)
(* get_section and primary: the alias locator.                             *)
(***************************************************************************)
\* SECTION_KEY_RE = ^@(\d+)$
SECTION_KEY_RE(name) ==
  /\ Len(name) >= 2
  /\ name[1] = "@"
  /\ \A i \in 2..Len(name) : name[i] \in Digit

DigitVal(c) ==
  CASE c = "0" -> 0 [] c = "1" -> 1 [] c = "2" -> 2 [] c = "3" -> 3
    [] c = "4" -> 4 [] c = "5" -> 5 [] c = "6" -> 6 [] c = "7" -> 7
    [] c = "8" -> 8 [] c = "9" -> 9

\* str::parse::<usize> of a string of digits (the strings of the model are
\* short enough never to exceed usize)
RECURSIVE ParseUsize(_)
ParseUsize(ds) ==
  IF ds = <<>> THEN 0
  ELSE 10 * ParseUsize(SubSeq(ds, 1, Len(ds) - 1)) + DigitVal(ds[Len(ds)])

SectionNone == [state |-> "ok", found |-> FALSE, key |-> <<>>]
SectionOf(e, key) == [state |-> "ok", found |-> e.isTable, key |-> key, def |-> e.def]

\* doc.as_table().iter().nth(n).and_then(..): the entry at 0-based position n;
\* actual_key is set only when there is one
NthSection(d, n) == IF n < Len(d) THEN SectionOf(d[n + 1], d[n + 1].key) ELSE SectionNone

\* `parse::<usize>()? - 1`: with overflow checks the subtraction 0 - 1 panics;
\* without them it wraps to usize::MAX, a position past the end of any document
get_section(d, name, checks) ==
  IF SECTION_KEY_RE(name)
  THEN LET k == ParseUsize(Tail(name))
       IN IF k = 0 THEN (IF checks THEN [state |-> "panic"] ELSE SectionNone)
          ELSE NthSection(d, k - 1)
  ELSE IF \E i \in 1..Len(d) : d[i].key = name
       THEN SectionOf(d[CHOOSE i \in 1..Len(d) : d[i].key = name], name)
       ELSE [state |-> "err"]

Ok == [state |-> "ok"]
Err(kind, code, w, i) == [state |-> "err", kind |-> kind, code |-> code, which |-> w, index |-> i]

\* primary: get_section, then process_cmd on the table found
primary ==
  /\ pc = "primary"
  /\ LET r == get_section(doc, cmd_name, overflowChecks)
     IN /\ located' = r
        /\ IF r.state = "panic"
           THEN pc' = "panicked" /\ exitCode' = 101 /\ UNCHANGED <<table, result>>
           ELSE IF r.state = "ok" /\ r.found
           THEN pc' = "process_cmd" /\ table' = r.def /\ UNCHANGED <<result, exitCode>>
           ELSE /\ result' = Err("AliasNotFound", -1, "none", 0)
                /\ pc' = "return"
                /\ UNCHANGED <<table, exitCode>>
  /\ UNCHANGED <<mode, template, pieces, rendered, doc, cmd_name, overflowChecks,
                 extraArgs, which, index, argv, children, events, lastStatus>>

(***************************************************************************)
(* run_argv: the argument vector of a step.                                *)
(***************************************************************************)
\* the loop of run_argv: render each element, stop at the first failure
RECURSIVE RenderAll(_)
RenderCons(r, rest) == IF ~rest.ok THEN rest ELSE [ok |-> TRUE, out |-> <<r.out>> \o rest.out]

RenderOne(r, rest) ==
  IF ~r.ok THEN [ok |-> FALSE, kind |-> "RenderError"] ELSE RenderCons(r, RenderAll(rest))

RenderAll(vecIn) ==
  IF vecIn = <<>> THEN [ok |-> TRUE, out |-> <<>>]
  ELSE IF Head(vecIn) = NotAString THEN [ok |-> FALSE, kind |-> "MalformedDefinition"]
  ELSE RenderOne(render_template(Head(vecIn)), Tail(vecIn))

BuildArgvRenderingArgs(rendered_, args) ==
  rendered_ \o [i \in 1..Len(args) |-> render_template(args[i]).out]

\* vec.extend_from_slice(args)
BuildArgv(rendered_, args) == rendered_ \o args

run_argv_with(r, args) == IF ~r.ok THEN r ELSE [ok |-> TRUE, argv |-> BuildArgv(r.out, args)]

\* run_argv up to the call of run_cmd
run_argv(vecIn, args) ==
  IF Len(vecIn) < 1 THEN [ok |-> FALSE, kind |-> "MalformedDefinition"]
  ELSE run_argv_with(RenderAll(vecIn), args)

(***************************************************************************)
(* run_cmd and run_builtin: the step runner.                               *)
(***************************************************************************)
S_rc == <<"-", "r", "c">>
S_hash == <<"#">>
S_writeFile == <<"w", "r", "i", "t", "e", "-", "f", "i", "l", "e">>

IsNoopWithoutComment(args) == args = <<>>

\* if args.is_empty() || &args[0] == "#"
IsNoop(args) == IF args = <<>> THEN TRUE ELSE args[1] = S_hash

\* let ignore_rc = args[0] == "-rc"
ignore_rc(args) == args[1] = S_rc

\* if ignore_rc && (args.len() == 1)
IsLoneRc(args) == ignore_rc(args) /\ Len(args) = 1

\* the two early returns of run_cmd
NothingToRun(args) == IF IsNoop(args) THEN TRUE ELSE IsLoneRc(args)

\* let (cmd, argv) = if ignore_rc { (&args[1], &args[2..]) } else { (&args[0], &args[1..]) }
CmdOf(args) == IF ignore_rc(args) THEN args[2] ELSE args[1]
ArgsOf(args) == IF ignore_rc(args) THEN Slice(args, 3, Len(args)) ELSE Slice(args, 2, Len(args))

\* cmd.starts_with("&")
IsBuiltin(cmd) == IF cmd = <<>> THEN FALSE ELSE cmd[1] = "&"

\* the outcomes of child.wait(): an exit code, death by a signal (no code),
\* or a failure of wait itself
ChildStatuses ==
  {[kind |-> "exit", code |-> 0], [kind |-> "exit", code |-> 2],
   [kind |-> "signal", code |-> -1], [kind |-> "waiterr", code |-> -1]}

rc_honoured(ignore, st) ==
  IF st.kind = "waiterr" THEN -1 ELSE IF st.kind = "signal" THEN 1 ELSE st.code

\* let rc = if ignore_rc { 0 } else { exit_status.map_err(..)?.code().unwrap_or(1) }
\* (-1: the `?` returned the error of wait)
rc(ignore, st) ==
  IF ignore THEN 0
  ELSE IF st.kind = "waiterr" THEN -1
  ELSE IF st.kind = "signal" THEN 1
  ELSE st.code

ContinueIgnoringFailure(r) ==
  IF which \in {"pre", "post"}
  THEN pc' = "pre_post" /\ index' = index + 1 /\ UNCHANGED <<which, result>>
  ELSE IF which = "main"
  THEN pc' = "after_main" /\ UNCHANGED <<which, index, result>>
  ELSE result' = r /\ pc' = "return" /\ UNCHANGED <<which, index>>

\* the `?` on the result r of run_argv, and where the caller goes on
Continue(r) ==
  IF r.state # "ok"
  THEN result' = r /\ pc' = "return" /\ UNCHANGED <<which, index>>
  ELSE IF which \in {"pre", "post"}
  THEN pc' = "pre_post" /\ index' = index + 1 /\ UNCHANGED <<which, result>>
  ELSE IF which = "main"
  THEN pc' = "after_main" /\ UNCHANGED <<which, index, result>>
  ELSE result' = r /\ pc' = "return" /\ UNCHANGED <<which, index>>

CallEvent == [ev |-> "call", which |-> which, index |-> index, argv |-> argv]
RetEvent(r) == [ev |-> "ret", ok |-> r.state = "ok"]

\* run_cmd on a comment, an empty vector or a lone -rc: nothing is run
run_cmd_noop ==
  /\ pc = "run_cmd"
  /\ NothingToRun(argv)
  /\ events' = events \o <<CallEvent, RetEvent(Ok)>>
  /\ Continue(Ok)
  /\ UNCHANGED <<mode, template, pieces, rendered, doc, cmd_name, overflowChecks,
                 located, table, extraArgs, argv, children, lastStatus, exitCode>>

\* run_cmd on &name: run_builtin(name, argv); write-file panics when the
\* write fails
run_builtin ==
  /\ pc = "run_cmd"
  /\ ~NothingToRun(argv)
  /\ IsBuiltin(CmdOf(argv))
  /\ LET name == Tail(CmdOf(argv))
         called == [ev |-> "builtin", name |-> name, args |-> ArgsOf(argv)]
     IN IF name = S_writeFile
        THEN \E wrote \in BOOLEAN :
               IF wrote
               THEN /\ events' = events \o <<CallEvent, called, RetEvent(Ok)>>
                    /\ Continue(Ok)
                    /\ UNCHANGED exitCode
               ELSE /\ events' = events \o <<CallEvent, called>>
                    /\ pc' = "panicked"
                    /\ exitCode' = 101
                    /\ UNCHANGED <<which, index, result>>
        ELSE LET r == Err("UnknownBuiltin", -1, which, index)
             IN /\ events' = events \o <<CallEvent, called, RetEvent(r)>>
                /\ Continue(r)
                /\ UNCHANGED exitCode
  /\ UNCHANGED <<mode, template, pieces, rendered, doc, cmd_name, overflowChecks,
                 located, table, extraArgs, argv, children, lastStatus>>

run_cmd_spawn_no_wait ==
  /\ pc = "run_cmd"
  /\ ~NothingToRun(argv)
  /\ ~IsBuiltin(CmdOf(argv))
  /\ events' = events \o <<CallEvent,
                            [ev |-> "spawn", cmd |-> CmdOf(argv), args |-> ArgsOf(argv),
                             started |-> TRUE],
                            RetEvent(Ok)>>
  /\ children' = children \cup {<<which, index>>}
  /\ Continue(Ok)
  /\ UNCHANGED <<mode, template, pieces, rendered, doc, cmd_name, overflowChecks,
                 located, table, extraArgs, argv, lastStatus, exitCode>>

\* run_cmd on an external command: Command::new(cmd).args(argv).spawn()
run_cmd_spawn ==
  /\ pc = "run_cmd"
  /\ ~NothingToRun(argv)
  /\ ~IsBuiltin(CmdOf(argv))
  /\ \E started \in BOOLEAN :
       LET spawn == [ev |-> "spawn", cmd |-> CmdOf(argv), args |-> ArgsOf(argv),
                     started |-> started]
       IN IF started
          THEN /\ events' = events \o <<CallEvent, spawn>>
               /\ children' = children \cup {<<which, index>>}
               /\ pc' = "wait"
               /\ UNCHANGED <<which, index, result>>
          ELSE LET r == Err("ProcessSpawnFailure", -1, which, index)
               IN /\ events' = events \o <<CallEvent, spawn, RetEvent(r)>>
                  /\ Continue(r)
                  /\ UNCHANGED children
  /\ UNCHANGED <<mode, template, pieces, rendered, doc, cmd_name, overflowChecks,
                 located, table, extraArgs, argv, lastStatus, exitCode>>

\* child.wait() returns, and run_cmd with it
run_cmd_wait ==
  /\ pc = "wait"
  /\ \E st \in ChildStatuses :
       LET code == rc(ignore_rc(argv), st)
           r == IF code = 0 THEN Ok
                ELSE IF code = -1 THEN Err("WaitFailure", -1, which, index)
                ELSE Err("NonZeroExit", code, which, index)
       IN /\ events' = events \o <<[ev |-> "exit"], RetEvent(r)>>
          /\ lastStatus' = st
          /\ children' = children \ {<<which, index>>}
          /\ Continue(r)
  /\ UNCHANGED <<mode, template, pieces, rendered, doc, cmd_name, overflowChecks,
                 located, table, extraArgs, argv, exitCode>>

(***************************************************************************)
(* process_pre_post_cmd and process_cmd: the pipeline executor.            *)
(***************************************************************************)
\* a key of the table: absent, holding something that is no array, or an array
Absent == [isArray |-> FALSE, absent |-> TRUE]
NotArray == [isArray |-> FALSE, absent |-> FALSE]
ArrayOf(xs) == [isArray |-> TRUE, elems |-> xs]

Phase(w) == IF w = "pre" THEN table.pre ELSE table.post

\* the last argument of run_argv in process_pre_post_cmd: &[]
PrePostArgs == <<>>

\* the head of process_pre_post_cmd: table[which].as_array()
EnterPrePost(w) ==
  IF ~Phase(w).isArray
  THEN /\ result' = Err("MalformedDefinition", -1, w, 0)
       /\ pc' = "return"
       /\ UNCHANGED <<which, index>>
  ELSE pc' = "pre_post" /\ which' = w /\ index' = 0 /\ UNCHANGED result

EnterMain == pc' = "main_cmd" /\ which' = "main" /\ index' = 0 /\ UNCHANGED result

\* run_argv: an error before run_cmd is returned, else run_cmd is entered
CallRunCmd(r) ==
  IF ~r.ok
  THEN result' = Err(r.kind, -1, which, index) /\ pc' = "return" /\ UNCHANGED argv
  ELSE argv' = r.argv /\ pc' = "run_cmd" /\ UNCHANGED result

\* process_cmd: if table.contains_key("pre") { process_pre_post_cmd("pre", ..)?; }
process_cmd ==
  /\ pc = "process_cmd"
  /\ IF table.hasPre THEN EnterPrePost("pre") ELSE EnterMain
  /\ UNCHANGED <<mode, template, pieces, rendered, doc, cmd_name, overflowChecks,
                 located, table, extraArgs, argv, children, events, lastStatus, exitCode>>

\* one turn of the loop of process_pre_post_cmd, up to the call of run_cmd
process_pre_post_cmd ==
  /\ pc = "pre_post"
  /\ LET steps == Phase(which).elems
     IN IF index >= Len(steps)
        THEN /\ IF which = "pre"
                THEN EnterMain
                ELSE result' = Ok /\ pc' = "return" /\ UNCHANGED <<which, index>>
             /\ UNCHANGED argv
        ELSE LET step == steps[index + 1]
             IN IF ~step.isArray
                THEN /\ result' = Err("MalformedDefinition", -1, which, index)
                     /\ pc' = "return"
                     /\ UNCHANGED <<which, index, argv>>
                ELSE CallRunCmd(run_argv(step.elems, PrePostArgs)) /\ UNCHANGED <<which, index>>
  /\ UNCHANGED <<mode, template, pieces, rendered, doc, cmd_name, overflowChecks,
                 located, table, extraArgs, children, events, lastStatus, exitCode>>

\* process_cmd: run_argv(get_command(cmd_name, table)?, "main", table, 0, args)?
process_cmd_main ==
  /\ pc = "main_cmd"
  /\ IF ~table.hasCommand \/ ~table.command.isArray
     THEN /\ result' = Err("MalformedDefinition", -1, "main", 0)
          /\ pc' = "return"
          /\ UNCHANGED argv
     ELSE CallRunCmd(run_argv(table.command.elems, extraArgs))
  /\ UNCHANGED <<mode, template, pieces, rendered, doc, cmd_name, overflowChecks,
                 located, table, extraArgs, which, index, children, events, lastStatus, exitCode>>

\* process_cmd: if table.contains_key("post") { process_pre_post_cmd("post", ..)?; } Ok(())
process_cmd_post ==
  /\ pc = "after_main"
  /\ IF table.hasPost
     THEN EnterPrePost("post")
     ELSE result' = Ok /\ pc' = "return" /\ UNCHANGED <<which, index>>
  /\ UNCHANGED <<mode, template, pieces, rendered, doc, cmd_name, overflowChecks,
                 located, table, extraArgs, argv, children, events, lastStatus, exitCode>>

\* main: Ok(()) ends the process with 0; an Err goes to die, which calls exit(1)
die(r) == IF r.state = "ok" THEN 0 ELSE 1

\* main, after primary returned
main ==
  /\ pc = "return"
  /\ exitCode' = die(result)
  /\ pc' = "exited"
  /\ UNCHANGED <<mode, template, pieces, rendered, doc, cmd_name, overflowChecks,
                 located, table, extraArgs, which, index, argv, children, events,
                 lastStatus, result>>

(***************************************************************************)
(* The alias definitions and command lines of the model.                   *)
(***************************************************************************)
S_t == <<"t">>
S_f == <<"f">>
S_x == <<"x">>
T_k == <<":", "%", "k", "%">>
T_z == <<":", "%", "z", "%">>
T_home == <<":", "~", "/">>
T_envb == <<":", "%", "e", "n", "v", ":", "b", "%">>

\* the well-formed steps of pre and post: an external command, one whose exit
\* code is ignored, a comment, a template that fails to render
StepPool ==
  { ArrayOf(<<S_t>>), ArrayOf(<<S_rc, S_f>>), ArrayOf(<<S_hash, S_x>>), ArrayOf(<<T_z>>) }

\* a key that is absent, or present with up to max steps
PhasePool(max) == {Absent} \cup {ArrayOf(xs) : xs \in SeqsUpTo(StepPool, max)}

CommandPool ==
  { ArrayOf(<<S_t, T_k>>), ArrayOf(<<S_rc, S_f>>), ArrayOf(<<<<"&">> \o S_writeFile>>),
    ArrayOf(<<T_z, T_envb>>) }

ExtraArgsPool == { <<>>, <<T_k, T_home>> }

Alias(p, c, q) ==
  [hasPre |-> p # Absent, pre |-> p, hasCommand |-> c # Absent, command |-> c,
   hasPost |-> q # Absent, post |-> q]

WellFormedDefs ==
  {Alias(p, c, q) : p \in PhasePool(MaxPre), c \in CommandPool, q \in PhasePool(MaxPost)}

\* definitions with a malformed part: pre or post that is no array, a step
\* that is no array or is empty, a command that is missing, no array, empty
\* or holds an element that is no string
MalformedDefs ==
  {Alias(p, ArrayOf(<<S_t>>), ArrayOf(<<ArrayOf(<<S_t>>)>>)) :
     p \in {NotArray, ArrayOf(<<ArrayOf(<<S_hash, S_x>>), NotArray>>),
            ArrayOf(<<ArrayOf(<<>>)>>)}}
  \cup
  {Alias(ArrayOf(<<ArrayOf(<<S_t>>)>>), ArrayOf(<<S_t>>), q) :
     q \in {NotArray, ArrayOf(<<NotArray>>), ArrayOf(<<ArrayOf(<<>>)>>)}}
  \cup
  {Alias(p, c, ArrayOf(<<ArrayOf(<<S_t>>)>>)) :
     p \in {Absent, ArrayOf(<<ArrayOf(<<S_hash, S_x>>)>>)},
     c \in {Absent, NotArray, ArrayOf(<<>>), ArrayOf(<<S_t, NotAString>>)}}

AliasDefs == WellFormedDefs \cup MalformedDefs

InitIdle ==
  /\ template = <<>>
  /\ pieces = <<>>
  /\ rendered = NoRender
  /\ located = NoLocated
  /\ table = NoTable
  /\ which = "none"
  /\ index = 0
  /\ children = {}
  /\ events = <<>>
  /\ lastStatus = NoStatus
  /\ result = NoResult
  /\ exitCode = -1

\* doit <cmd_name> <extraArgs...> on a document that holds one alias, t
Init ==
  /\ mode = "run"
  /\ pc = "primary"
  /\ \E def \in AliasDefs : doc = <<[key |-> S_t, isTable |-> TRUE, def |-> def]>>
  /\ cmd_name \in {S_t, <<"q">>}
  /\ overflowChecks = TRUE
  /\ extraArgs \in ExtraArgsPool
  /\ argv = <<>>
  /\ InitIdle

Next ==
  \/ primary
  \/ process_cmd
  \/ process_pre_post_cmd
  \/ process_cmd_main
  \/ run_cmd_noop
  \/ run_builtin
  \/ run_cmd_spawn
  \/ run_cmd_wait
  \/ process_cmd_post
  \/ main

Spec == Init /\ [][Next]_vars

(***************************************************************************)
(* The locator on its own: documents of up to MaxDoc entries, whose keys   *)
(* are not in alphabetical order, and references by name and by position.  *)
(***************************************************************************)
KeyChars == <<"z", "m", "a", "q", "c", "d", "b">>
KeyOf(i) == <<KeyChars[i]>>

EntryOf(i, isTable) ==
  [key |-> KeyOf(i), isTable |-> isTable,
   def |-> Alias(Absent, ArrayOf(<<KeyOf(i)>>), Absent)]

Docs ==
  {<<>>} \cup
  UNION {{[i \in 1..n |-> EntryOf(i, f[i])] : f \in [1..n -> BOOLEAN]} : n \in 1..MaxDoc}

RefDigits == {"0", "1", "2", "3", "4", "5"}

References ==
  {<<"@", d>> : d \in RefDigits}
  \cup {<<"@", d, e>> : d \in RefDigits, e \in RefDigits}
  \cup {KeyOf(i) : i \in 1..(MaxDoc + 1)}
  \cup {<<"@">>, <<"@", "x">>, <<"1">>}

InitLocate ==
  /\ mode = "locate"
  /\ pc = "primary"
  /\ doc \in Docs
  /\ cmd_name \in References
  /\ overflowChecks \in BOOLEAN
  /\ extraArgs = <<>>
  /\ argv = <<>>
  /\ InitIdle

NextLocate == primary \/ main

SpecLocate == InitLocate /\ [][NextLocate]_vars

(***************************************************************************)
(* The step runner on its own: run_cmd on argument vectors of up to        *)
(* MaxArgv elements.                                                       *)
(***************************************************************************)
ArgElems == {S_hash, S_rc, <<"&">> \o S_writeFile, <<"&", "n">>, S_t, <<>>}

ArgVectors == SeqsUpTo(ArgElems, MaxArgv)

InitRunCmd ==
  /\ mode = "run_cmd"
  /\ pc = "run_cmd"
  /\ doc = <<>>
  /\ cmd_name = <<>>
  /\ overflowChecks = TRUE
  /\ extraArgs = <<>>
  /\ argv \in ArgVectors
  /\ InitIdle

NextRunCmd == run_cmd_noop \/ run_builtin \/ run_cmd_spawn \/ run_cmd_wait

SpecRunCmd == InitRunCmd /\ [][NextRunCmd]_vars

(***************************************************************************)
(* The log of the step runner, read back.                                  *)
(***************************************************************************)
IsCall(i) == events[i].ev = "call"
IsRet(i) == events[i].ev = "ret"
CallIndices == {i \in 1..Len(events) : IsCall(i)}

\* pre steps come before main, main before post steps
Rank(w) == CASE w = "pre" -> 1 [] w = "main" -> 2 [] w = "post" -> 3 [] OTHER -> 0
IsLater(w1, i1, w2, i2) == Rank(w1) > Rank(w2) \/ (Rank(w1) = Rank(w2) /\ i1 > i2)

Returned == pc \in {"return", "exited"}

\* C1: once a step fails, no later step of pre[1..], main, post[1..] is run
\* and process_cmd returns Err: a failed return of run_cmd is the last thing
\* the step runner did, and no step after the failing one was handed to it.
C1_FailFast ==
  /\ \A i \in 1..Len(events) :
       (IsRet(i) /\ ~events[i].ok) =>
         (i = Len(events) /\ Returned /\ result.state = "err")
  /\ result.state = "err" =>
       /\ Returned
       /\ \A i \in CallIndices :
            ~IsLater(events[i].which, events[i].index, result.which, result.index)

\* the first pre step failed with a non-zero
\* exit although a second pre step, the command and a post step were to come
C1_Witness ==
  /\ mode = "run"
  /\ result.state = "err"
  /\ result.kind = "NonZeroExit"
  /\ result.which = "pre"
  /\ result.index = 0
  /\ Len(table.pre.elems) >= 2
  /\ table.hasPost
  /\ table.post.isArray
  /\ Len(table.post.elems) >= 1

PositionsOf(w) ==
  IF w = "main" THEN <<<<"main", 0>>>>
  ELSE IF Phase(w) = Absent THEN <<>>
  ELSE [i \in 1..Len(Phase(w).elems) |-> <<w, i - 1>>]

ExpectedCalls == PositionsOf("pre") \o PositionsOf("main") \o PositionsOf("post")

CallsMade ==
  LET calls == SelectSeq(events, LAMBDA e : e.ev = "call")
  IN [i \in 1..Len(calls) |-> <<calls[i].which, calls[i].index>>]

\* C2: process_cmd returns Ok only if every pre step, the main step and every
\* post step was run exactly once, in that order, and each succeeded; a step
\* starts only after the step before it has returned, and a child that was
\* spawned is waited for before anything else is done.
C2_OkOnlyIfAllRanInOrder ==
  /\ (Returned /\ result.state = "ok") =>
       /\ CallsMade = ExpectedCalls
       /\ \A i \in 1..Len(events) : IsRet(i) => events[i].ok
  /\ \A i \in CallIndices : i = 1 \/ IsRet(i - 1)
  /\ Cardinality(children) <= 1
  /\ pc # "wait" => children = {}
  /\ \A i \in 1..Len(events) :
       (events[i].ev = "spawn" /\ events[i].started /\ i < Len(events)) =>
         events[i + 1].ev = "exit"

\* a pipeline of two pre steps, the command and a post step that returned Ok
\* after spawning at least two children
C2_Witness ==
  /\ mode = "run"
  /\ pc = "exited"
  /\ result.state = "ok"
  /\ Len(CallsMade) >= 4
  /\ Cardinality({i \in 1..Len(events) : events[i].ev = "exit"}) >= 2
  /\ \E i \in CallIndices : events[i].which = "post"

RenderedOut(xs) == [j \in 1..Len(xs) |-> render_template(xs[j]).out]

ExpectedArgv(w, i) ==
  IF w = "main" THEN RenderedOut(table.command.elems) \o extraArgs
  ELSE RenderedOut(Phase(w).elems[i + 1].elems)

\* C5: the argument vector handed to run_cmd for the main step is the rendered
\* elements of command followed by the extra arguments as they were given;
\* the argument vector of a pre or post step is the rendered elements of the
\* step and nothing else.
C5_ExtraArgsVerbatim ==
  mode = "run" =>
    \A i \in CallIndices :
      events[i].argv = ExpectedArgv(events[i].which, events[i].index)

\* the main step ran with extra arguments that begin with ":" and hold a
\* placeholder and a "~/", after a pre step ran
C5_Witness ==
  /\ mode = "run"
  /\ extraArgs = <<T_k, T_home>>
  /\ \E i \in CallIndices :
       /\ events[i].which = "main"
       /\ events[i].argv = <<S_t, <<"X">>, T_k, T_home>>
  /\ \E i \in CallIndices : events[i].which = "pre"

\* C7: the exit code is 0 when primary returns Ok, and on Err a non-zero code
\* that is the failing step's own exit code when that code is known.
C7_ExitCodePropagated ==
  pc = "exited" =>
    /\ result.state = "ok" => exitCode = 0
    /\ result.state = "err" =>
         /\ exitCode # 0
         /\ result.kind = "NonZeroExit" => exitCode = result.code

(***************************************************************************)
(* Claims about run_cmd.                                                   *)
(***************************************************************************)
\* the vector without a leading -rc marker
Stripped(a) == IF a # <<>> /\ a[1] = S_rc THEN Tail(a) ELSE a

StartsWithAmp(str) == str # <<>> /\ str[1] = "&"

\* -rc followed by an external command
IsRcExternal(a) == Len(a) >= 2 /\ a[1] = S_rc /\ ~StartsWithAmp(a[2])

\* the return of run_cmd for the call logged at i: the first one after it
RetOf(i) ==
  LET rets == {j \in (i + 1)..Len(events) : IsRet(j)}
  IN IF rets = {} THEN 0 ELSE CHOOSE j \in rets : \A k \in rets : j <= k

\* C3, as stated: a step -rc followed by an external command is reported as a
\* success whatever happens when the command is run.
C3_RcAlwaysSucceeds ==
  \A i \in CallIndices :
    (IsRcExternal(events[i].argv) /\ RetOf(i) # 0) => events[RetOf(i)].ok

\* C3, amended: such a step is reported as a success exactly when the command
\* could be started, whatever its exit status and even when waiting for it
\* fails; when the command cannot be started the step fails.
C3_RcSucceedsOnceStarted ==
  \A i \in CallIndices :
    (IsRcExternal(events[i].argv) /\ RetOf(i) # 0) =>
      /\ events[i + 1].ev = "spawn"
      /\ events[RetOf(i)].ok = events[i + 1].started

\* an -rc step whose command ended with exit code 2 was reported as a success
C3_Witness ==
  /\ mode = "run_cmd"
  /\ IsRcExternal(argv)
  /\ lastStatus = [kind |-> "exit", code |-> 2]
  /\ events # <<>>
  /\ IsRet(Len(events))
  /\ events[Len(events)].ok

\* what the claim says is spawned
SpawnExpected(a) ==
  /\ a # <<>>
  /\ a[1] # S_hash
  /\ a # <<S_rc>>
  /\ ~StartsWithAmp(Stripped(a)[1])

\* C8: run_cmd spawns a process if and only if the vector is not empty, its
\* first element is not "#", it is not the lone "-rc", and its first element
\* after a leading "-rc" does not begin with "&"; a "#" step and a lone "-rc"
\* return success with nothing spawned; an &name step calls the builtin name
\* with the remaining elements.
C8_SpawnCondition ==
  \A i \in CallIndices :
    LET a == events[i].argv
    IN /\ i < Len(events)
       /\ (events[i + 1].ev = "spawn") = SpawnExpected(a)
       /\ events[i + 1].ev = "spawn" =>
            /\ events[i + 1].cmd = Stripped(a)[1]
            /\ events[i + 1].args = Tail(Stripped(a))
       /\ (a = <<>> \/ a = <<S_rc>>) =>
            (IsRet(i + 1) /\ events[i + 1].ok)
       /\ (a # <<>> /\ a[1] = S_hash) =>
            (IsRet(i + 1) /\ events[i + 1].ok)
       /\ (a # <<>> /\ a[1] # S_hash /\ a # <<S_rc>> /\ StartsWithAmp(Stripped(a)[1])) =>
            /\ events[i + 1].ev = "builtin"
            /\ events[i + 1].name = Tail(Stripped(a)[1])
            /\ events[i + 1].args = Tail(Stripped(a))
       /\ \A j \in 1..Len(events) : events[j].ev = "spawn" => (j > 1 /\ IsCall(j - 1))

\* a comment step with more elements returned success, nothing was spawned
C8_Witness ==
  /\ mode = "run_cmd"
  /\ Len(argv) >= 2
  /\ argv[1] = S_hash
  /\ argv[2] = S_t
  /\ Len(events) = 2
  /\ IsRet(2)
  /\ events[2].ok

(***************************************************************************)
(* Claims about get_section.                                               *)
(***************************************************************************)
\* C4: on a table of N entries, @0 and @K for K > N end in the error
\* AliasNotFound, returned and not a crash; @K for 1 <= K <= N resolves to
\* the K-th entry in insertion order with that entry's key as canonical name.
C4_PositionalLookup ==
  (/\ mode = "locate"
   /\ pc # "primary"
   /\ SECTION_KEY_RE(cmd_name)
   /\ \A i \in 1..Len(doc) : doc[i].isTable) =>
    LET k == ParseUsize(Tail(cmd_name))
    IN IF 1 <= k /\ k <= Len(doc)
       THEN /\ pc = "process_cmd"
            /\ located.state = "ok"
            /\ located.found
            /\ located.key = doc[k].key
            /\ table = doc[k].def
       ELSE /\ Returned
            /\ result.state = "err"
            /\ result.kind = "AliasNotFound"

(***************************************************************************)
(* Claims about render_template.                                           *)
(***************************************************************************)
OptedIn == template = <<":">> \o Flatten(pieces) /\ pieces # <<>>

\* the names each stage matches in the string it is given, in order
RECURSIVE Env1Names(_, _)
Env1Names(s, from) ==
  LET m == ENV1_RE(s, from)
  IN IF m.at = 0 THEN <<>> ELSE <<m.name>> \o Env1Names(s, m.end + 1)

RECURSIVE VarNames(_, _)
VarNames(s, from) ==
  LET m == VAR_RE(s, from)
  IN IF m.at = 0 THEN <<>> ELSE <<m.name>> \o VarNames(s, m.end + 1)

RECURSIVE TildeNames(_, _)
TildeNames(s, from) ==
  LET m == TILDE_USER_RE(s, from)
  IN IF m.at = 0 THEN <<>> ELSE <<m.name>> \o TildeNames(s, m.end + 1)

\* the placeholders of each stage that do not resolve, as errors
FailedEnv(t) ==
  LET bad == SelectSeq(Env1Names(x2(t), 1), LAMBDA n : EnvVar(n) = Unset)
  IN [i \in 1..Len(bad) |-> ErrEnv(bad[i])]

FailedVar(t) ==
  LET bad == SelectSeq(VarNames(x3(t).out, 1),
                       LAMBDA n : ScopeGet(n) = Unset \/ ScopeGet(n) = NotAString)
  IN [i \in 1..Len(bad) |->
        IF ScopeGet(bad[i]) = Unset THEN ErrKey(bad[i]) ELSE ErrStr(bad[i])]

FailedUser(t) ==
  LET bad == SelectSeq(TildeNames(x4(t).out, 1),
                       LAMBDA n : n # <<>> /\ UserHome(n) = Unset)
  IN [i \in 1..Len(bad) |-> ErrUser(bad[i])]

AllFailures(t) == FailedEnv(t) \o FailedVar(t) \o FailedUser(t)

IsEscape(p) == p = S_pctpct
IsEnvRequired(p) == Len(p) > 6 /\ HasPrefixAt(p, S_envPrefix, 1) /\ \A i \in 6..(Len(p) - 1) : p[i] # ":"
IsScopeVar(p) == Len(p) >= 3 /\ p[1] = "%" /\ p[Len(p)] = "%" /\ ~HasPrefixAt(p, S_envPrefix, 1)
KeyOfPiece(p) == SubSeq(p, 2, Len(p) - 1)
EnvNameOfPiece(p) == SubSeq(p, 6, Len(p) - 1)
IsText(p) == p \in {<<"x">>, <<":">>}

ScopePieceOut(p) ==
  IF IsEscape(p) THEN S_pct
  ELSE IF IsScopeVar(p)
  THEN (IF ScopeGet(KeyOfPiece(p)) \in {Unset, NotAString} THEN <<>> ELSE ScopeGet(KeyOfPiece(p)))
  ELSE p

ScopePieceErrs(p) ==
  IF IsScopeVar(p) /\ ScopeGet(KeyOfPiece(p)) = Unset THEN <<ErrKey(KeyOfPiece(p))>>
  ELSE IF IsScopeVar(p) /\ ScopeGet(KeyOfPiece(p)) = NotAString THEN <<ErrStr(KeyOfPiece(p))>>
  ELSE <<>>

RECURSIVE ScopeOut(_)
ScopeOut(ps) == IF ps = <<>> THEN <<>> ELSE ScopePieceOut(Head(ps)) \o ScopeOut(Tail(ps))

RECURSIVE ScopeErrs(_)
ScopeErrs(ps) == IF ps = <<>> THEN <<>> ELSE ScopePieceErrs(Head(ps)) \o ScopeErrs(Tail(ps))

\* C9: in a template of text, %% escapes and %KEY% placeholders, in any
\* placement, every %KEY% is replaced by the string scope[KEY] or yields an
\* UnknownKey / NotAString error, and every %% renders as one %.
C9_ScopePlaceholdersAnywhere ==
  (/\ mode = "render"
   /\ pc = "done"
   /\ OptedIn
   /\ \A i \in 1..Len(pieces) : IsText(pieces[i]) \/ IsEscape(pieces[i]) \/ IsScopeVar(pieces[i])) =>
    IF ScopeErrs(pieces) # <<>>
    THEN ~rendered.ok /\ rendered.errs = ScopeErrs(pieces)
    ELSE rendered.ok /\ rendered.out = ScopeOut(pieces)

\* C10: a template that starts with %env:NAME% followed by anything that does
\* not itself start with "%": the placeholder is replaced by the value of
\* NAME when it is set, and is reported as UnknownEnvVar when it is not.
C10_EnvRequiredWhateverFollows ==
  (/\ mode = "render"
   /\ pc = "done"
   /\ OptedIn
   /\ IsEnvRequired(pieces[1])
   /\ Len(pieces) >= 2 => pieces[2][1] # "%") =>
    IF EnvVar(EnvNameOfPiece(pieces[1])) = Unset
    THEN /\ ~rendered.ok
         /\ \E i \in 1..Len(rendered.errs) : rendered.errs[i] = ErrEnv(EnvNameOfPiece(pieces[1]))
    ELSE /\ \A i \in 1..Len(rendered.errs) : rendered.errs[i].kind # "UnknownEnvVar"
         /\ rendered.ok =>
              HasPrefixAt(rendered.out, EnvVar(EnvNameOfPiece(pieces[1])), 1)

====
